---- MODULE Spec2Model ----
\* Model of datacollector's parallel query executor (executor.QueryTargets):
\* the dispatching loop with its semaphore, one goroutine per target
\* (connect, query, send, deferred close / release / Done), the WaitGroup
\* barrier, and the single-threaded aggregation of the two channels; and of
\* the program around it (main): loading the workload file, the required
\* parameter checks, the call of QueryTargets, the all-failed test and the
\* CSV write.
EXTENDS Integers, Sequences, FiniteSets, TLC

\* ---------------------------------------------------------------- bounds
MaxTargets == 2
MaxWorkers == 2
MaxRows == 2
MaxCloses == 3

\* ---------------------------------------------------------------- inputs
\* The i-th host name of a workload. QueryTargets never compares host names:
\* a goroutine is tied to its position in the list, so one list per length
\* covers the lists of that length.
Host(i) == ToString(i)

Targets(n) == [i \in 1..n |-> Host(i)]

\* Column-name sequences a target's query may return.
ColumnSets == {<<>>, <<"id">>, <<"id", "name">>}

\* Row j of a result set with the columns c: ExecuteRawQuery makes every row
\* exactly len(columns) cells wide; the cell text tells the rows apart.
RowOf(c, j) == [k \in 1..Len(c) |-> ToString(j)]

\* database.QueryResult as ExecuteRawQuery builds it for n fetched rows.
NewQueryResult(c, n) == [Columns |-> c, Rows |-> [j \in 1..n |-> RowOf(c, j)]]

QueryResult == {NewQueryResult(c, n) : c \in ColumnSets, n \in 0..MaxRows}

\* models.Workload, restricted to the fields QueryTargets reads.
Workload ==
  [Workers : 0..MaxWorkers, Targets : {Targets(n) : n \in 0..MaxTargets}]

NoResult == [Columns |-> <<"-">>, Rows |-> <<>>, nil |-> TRUE]

VARIABLES
  workload,     \* the *models.Workload argument
  pc,           \* position of the goroutine that called QueryTargets
  next,         \* index of the next target of the range loop
  wg,           \* sync.WaitGroup counter
  semaphore,    \* number of tokens buffered in the semaphore channel
  resultsChan,  \* buffered contents of resultsChan
  errChan,      \* buffered contents of errChan
  closed,       \* TRUE once resultsChan and errChan have been closed
  tpc,          \* position of each target's goroutine
  db,           \* per goroutine: state of the handle returned by Connect
  result,       \* per goroutine: value returned by ExecuteRawQuery
  calls,        \* per goroutine: calls made to the database package, sends
  allRows,      \* aggregation locals
  columns,
  hasResults,
  errorCount,
  collected,    \* the Successes read from resultsChan, in collection order
  panicked,     \* a runtime panic happened (send on closed channel, ...)
  ret,          \* the ExecutionResult returned, or NoReturn
  file,         \* what reading and parsing the workload file yields
  dbName,       \* the DB_NAME environment variable
  mpc,          \* position of main
  writes,       \* the calls made to csv.WriteToCSV, with their outcome
  logs,         \* the messages main has logged, in order
  conns,        \* handles on which database.Close is called directly
  closeRets     \* per such handle: what each call of Close found and returned

vars == <<workload, pc, next, wg, semaphore, resultsChan, errChan, closed,
          tpc, db, result, calls, allRows, columns, hasResults, errorCount,
          collected, panicked, ret, file, dbName, mpc, writes, logs, conns,
          closeRets>>

closeVars == <<conns, closeRets>>

runVars == <<file, dbName, mpc, writes, logs, closeVars>>

mainVars == <<pc, next>>
aggVars == <<allRows, columns, hasResults, errorCount, collected, ret>>
taskVars == <<tpc, db, result, calls>>

NoReturn == [returned |-> FALSE]

\* LoadWorkloadConfig's error result (file unreadable or not valid JSON)
LoadError == [err |-> "cannot read or parse the file"]

N == Len(workload.Targets)
Tasks == 1..N

\* capacity of the three channels, executor.go:33-35
SemaphoreCapOneMore == workload.Workers + 1

SemaphoreCapCoerced ==
  IF workload.Workers <= 0 THEN 1 ELSE workload.Workers

SemaphoreCapTargets == Len(workload.Targets)

SemaphoreCapOneLess == workload.Workers - 1

SemaphoreCap == workload.Workers
ResultsCapWorkers == workload.Workers

ResultsCap == Len(workload.Targets)
ErrCap == Len(workload.Targets)

Init ==
  /\ workload \in Workload
  /\ pc = "range"
  /\ next = 1
  /\ wg = 0
  /\ semaphore = 0
  /\ resultsChan = <<>>
  /\ errChan = <<>>
  /\ closed = FALSE
  /\ tpc = [i \in Tasks |-> "unborn"]
  /\ db = [i \in Tasks |-> "nil"]
  /\ result = [i \in Tasks |-> NoResult]
  /\ calls = [i \in Tasks |-> [connect |-> 0, query |-> 0, close |-> 0,
                                sendResult |-> 0, sendErr |-> 0]]
  /\ allRows = <<>>
  /\ columns = <<>>
  /\ hasResults = FALSE
  /\ errorCount = 0
  /\ collected = <<>>
  /\ panicked = FALSE
  /\ ret = NoReturn
  /\ file = LoadError
  /\ dbName = "appdb"
  /\ mpc = "inCall"
  /\ writes = <<>>
  /\ logs = <<>>
  /\ conns = <<>>
  /\ closeRets = <<>>

\* ------------------------------------------------ the dispatching loop
\* for _, targetHost := range workload.Targets { wg.Add(1)
HasNextTargetOffByOne == next < N

HasNextTarget == next <= N

RangeTargets ==
  /\ pc = "range"
  /\ ~panicked
  /\ IF HasNextTarget
       THEN /\ wg' = wg + 1
            /\ pc' = "acquire"
       ELSE /\ wg' = wg
            /\ pc' = "wait"
  /\ UNCHANGED runVars
  /\ UNCHANGED <<workload, next, semaphore, resultsChan, errChan, closed,
                 taskVars, aggVars, panicked>>

\* semaphore <- struct{}{} ; go func(host string) {...}(targetHost)
Acquire ==
  /\ pc = "acquire"
  /\ ~panicked
  /\ semaphore < SemaphoreCap
  /\ semaphore' = semaphore + 1
  /\ tpc' = [tpc EXCEPT ![next] = "connect"]
  /\ next' = next + 1
  /\ pc' = "range"
  /\ UNCHANGED runVars
  /\ UNCHANGED <<workload, wg, resultsChan, errChan, closed, db, result,
                 calls, aggVars, panicked>>

\* ------------------------------------------------ one target's goroutine
\* db, err := database.Connect(targetDbConfig)
Connect(i) ==
  /\ i \in Tasks
  /\ tpc[i] = "connect"
  /\ ~panicked
  /\ calls' = [calls EXCEPT ![i].connect = @ + 1]
  /\ \E ok \in BOOLEAN :
       IF ok THEN /\ db' = [db EXCEPT ![i] = "open"]
                  /\ tpc' = [tpc EXCEPT ![i] = "query"]
             ELSE /\ db' = db
                  /\ tpc' = [tpc EXCEPT ![i] = "errConnect"]
  /\ UNCHANGED runVars
  /\ UNCHANGED <<workload, mainVars, wg, semaphore, resultsChan, errChan,
                 closed, result, aggVars, panicked>>

\* the error value a goroutine sends: fmt.Errorf names the step and the host
ErrorOf(i, step) == [task |-> i, host |-> workload.Targets[i], step |-> step]

\* errChan <- fmt.Errorf(...); return
SendErr(i, from, step, to) ==
  /\ i \in Tasks
  /\ tpc[i] = from
  /\ ~panicked
  /\ IF closed
       THEN /\ panicked' = TRUE
            /\ UNCHANGED <<errChan, tpc, calls>>
       ELSE /\ Len(errChan) < ErrCap
            /\ errChan' = Append(errChan, ErrorOf(i, step))
            /\ calls' = [calls EXCEPT ![i].sendErr = @ + 1]
            /\ tpc' = [tpc EXCEPT ![i] = to]
            /\ panicked' = panicked
  /\ UNCHANGED runVars
  /\ UNCHANGED <<workload, mainVars, wg, semaphore, resultsChan, closed, db,
                 result, aggVars>>

SendConnectErrNoReturn(i) == SendErr(i, "errConnect", "connect", "query")

SendConnectErrRetry(i) == SendErr(i, "errConnect", "connect", "connect")

SendConnectErrNoRelease(i) == SendErr(i, "errConnect", "connect", "deferDone")

\* connect failed: the deferred Close is not yet registered (executor.go:60-63)
SendConnectErr(i) == SendErr(i, "errConnect", "connect", "deferRelease")

\* result, err := database.ExecuteRawQuery(db, workload.Query)
ExecuteRawQuery(i) ==
  /\ i \in Tasks
  /\ tpc[i] = "query"
  /\ ~panicked
  /\ calls' = [calls EXCEPT ![i].query = @ + 1]
  /\ \/ \E r \in QueryResult :
          /\ result' = [result EXCEPT ![i] = r]
          /\ tpc' = [tpc EXCEPT ![i] = "sendResult"]
     \/ /\ result' = result
        /\ tpc' = [tpc EXCEPT ![i] = "errQuery"]
  /\ UNCHANGED runVars
  /\ UNCHANGED <<workload, mainVars, wg, semaphore, resultsChan, errChan,
                 closed, db, aggVars, panicked>>

SendQueryErrNoClose(i) == SendErr(i, "errQuery", "query", "deferRelease")

SendQueryErrNotSent(i) ==
  /\ i \in Tasks
  /\ tpc[i] = "errQuery"
  /\ ~panicked
  /\ tpc' = [tpc EXCEPT ![i] = "deferClose"]
  /\ UNCHANGED runVars
  /\ UNCHANGED <<workload, mainVars, wg, semaphore, resultsChan, errChan,
                 closed, db, result, calls, aggVars, panicked>>

\* query failed (executor.go:69-72)
SendQueryErr(i) == SendErr(i, "errQuery", "query", "deferClose")

SendResultNoClose(i) ==
  /\ i \in Tasks
  /\ tpc[i] = "sendResult"
  /\ ~panicked
  /\ IF closed
       THEN /\ panicked' = TRUE
            /\ UNCHANGED <<resultsChan, tpc, calls>>
       ELSE /\ Len(resultsChan) < ResultsCap
            /\ resultsChan' = Append(resultsChan, result[i])
            /\ calls' = [calls EXCEPT ![i].sendResult = @ + 1]
            /\ tpc' = [tpc EXCEPT ![i] = "deferRelease"]
            /\ panicked' = panicked
  /\ UNCHANGED runVars
  /\ UNCHANGED <<workload, mainVars, wg, semaphore, errChan, closed, db,
                 result, aggVars>>

\* resultsChan <- result
SendResult(i) ==
  /\ i \in Tasks
  /\ tpc[i] = "sendResult"
  /\ ~panicked
  /\ IF closed
       THEN /\ panicked' = TRUE
            /\ UNCHANGED <<resultsChan, tpc, calls>>
       ELSE /\ Len(resultsChan) < ResultsCap
            /\ resultsChan' = Append(resultsChan, result[i])
            /\ calls' = [calls EXCEPT ![i].sendResult = @ + 1]
            /\ tpc' = [tpc EXCEPT ![i] = "deferClose"]
            /\ panicked' = panicked
  /\ UNCHANGED runVars
  /\ UNCHANGED <<workload, mainVars, wg, semaphore, errChan, closed, db,
                 result, aggVars>>

\* database.Close(db): a non-nil handle is closed, nil is left alone. The
\* error it may return is dropped by the defer statement.
Close(h) == IF h # "nil" THEN "closed" ELSE h

\* what sqlDB.Close() may return for an open pool
DriverErrors == {"nil", "error closing"}

CloseErrNotIdempotent(h, e) == IF h # "nil" THEN e ELSE "nil"

\* the error database.Close(db) returns: nil for a nil handle; otherwise
\* what sqlDB.Close() returns, which for a pool that is already closed is
\* nil (database/sql's DB.Close returns early on a closed DB). db.DB() cannot
\* fail here: Connect returns a handle only after db.DB() has succeeded.
CloseErr(h, e) == IF h # "nil" THEN (IF h = "closed" THEN "nil" ELSE e) ELSE "nil"

\* defer database.Close(db)
DeferClose(i) ==
  /\ i \in Tasks
  /\ tpc[i] = "deferClose"
  /\ ~panicked
  /\ db' = [db EXCEPT ![i] = Close(@)]
  /\ calls' = [calls EXCEPT ![i].close = @ + 1]
  /\ tpc' = [tpc EXCEPT ![i] = "deferRelease"]
  /\ UNCHANGED runVars
  /\ UNCHANGED <<workload, mainVars, wg, semaphore, resultsChan, errChan,
                 closed, result, aggVars, panicked>>

\* defer func() { <-semaphore }()
DeferRelease(i) ==
  /\ i \in Tasks
  /\ tpc[i] = "deferRelease"
  /\ ~panicked
  /\ semaphore > 0
  /\ semaphore' = semaphore - 1
  /\ tpc' = [tpc EXCEPT ![i] = "deferDone"]
  /\ UNCHANGED runVars
  /\ UNCHANGED <<workload, mainVars, wg, resultsChan, errChan, closed, db,
                 result, calls, aggVars, panicked>>

\* defer wg.Done()
DeferDone(i) ==
  /\ i \in Tasks
  /\ tpc[i] = "deferDone"
  /\ ~panicked
  /\ IF wg = 0
       THEN /\ panicked' = TRUE
            /\ UNCHANGED <<wg, tpc>>
       ELSE /\ wg' = wg - 1
            /\ tpc' = [tpc EXCEPT ![i] = "exited"]
            /\ panicked' = panicked
  /\ UNCHANGED runVars
  /\ UNCHANGED <<workload, mainVars, semaphore, resultsChan, errChan, closed,
                 db, result, calls, aggVars>>

\* ------------------------------------------------ barrier and aggregation
WaitDoneTimeout == TRUE

WaitDoneEarly == wg <= 1

\* wg.Wait() returns when the counter is zero
WaitDone == wg = 0

\* wg.Wait(); close(resultsChan); close(errChan)
Wait ==
  /\ pc = "wait"
  /\ ~panicked
  /\ WaitDone
  /\ closed' = TRUE
  /\ pc' = "collect"
  /\ UNCHANGED runVars
  /\ UNCHANGED <<workload, next, wg, semaphore, resultsChan, errChan,
                 taskVars, aggVars, panicked>>

SetsColumnsEveryTime(has, r) == Len(r.Columns) > 0

SetsColumnsOfAny(has, r) == ~has

\* body of `for result := range resultsChan`, executor.go:92-100
SetsColumns(has, r) == ~has /\ Len(r.Columns) > 0

CollectColumns(cols, has, r) == IF SetsColumns(has, r) THEN r.Columns ELSE cols

CollectHasResultsOfLast(has, r) == Len(r.Columns) > 0

CollectHasResults(has, r) == IF SetsColumns(has, r) THEN TRUE ELSE has

CollectRowsSameWidthOnly(rows, r) ==
  IF Len(r.Rows) > 0 /\ (rows = <<>> \/ Len(r.Rows[1]) = Len(rows[1]))
    THEN rows \o r.Rows
    ELSE rows

CollectRowsInFront(rows, r) == IF Len(r.Rows) > 0 THEN r.Rows \o rows ELSE rows

CollectRows(rows, r) == IF Len(r.Rows) > 0 THEN rows \o r.Rows ELSE rows

\* for result := range resultsChan { ... }. The `result != nil` test always
\* passes: ExecuteRawQuery returns a non-nil result whenever err is nil.
CollectResult ==
  /\ pc = "collect"
  /\ ~panicked
  /\ IF resultsChan # <<>>
       THEN LET r == Head(resultsChan) IN
            /\ resultsChan' = Tail(resultsChan)
            /\ columns' = CollectColumns(columns, hasResults, r)
            /\ hasResults' = CollectHasResults(hasResults, r)
            /\ allRows' = CollectRows(allRows, r)
            /\ collected' = Append(collected, r)
            /\ pc' = pc
       ELSE /\ closed
            /\ pc' = "collectErr"
            /\ UNCHANGED <<resultsChan, columns, hasResults, allRows,
                           collected>>
  /\ UNCHANGED runVars
  /\ UNCHANGED <<workload, next, wg, semaphore, errChan, closed, taskVars,
                 errorCount, panicked, ret>>

\* for err := range errChan { errorCount++ }
CollectErr ==
  /\ pc = "collectErr"
  /\ ~panicked
  /\ IF errChan # <<>>
       THEN /\ errChan' = Tail(errChan)
            /\ errorCount' = errorCount + 1
            /\ pc' = pc
       ELSE /\ closed
            /\ pc' = "return"
            /\ UNCHANGED <<errChan, errorCount>>
  /\ UNCHANGED runVars
  /\ UNCHANGED <<workload, next, wg, semaphore, resultsChan, closed,
                 taskVars, allRows, columns, hasResults, collected, panicked,
                 ret>>

\* the ExecutionResult literal of executor.go:115-120
ExecutionResult(rows, cols, errs, has) ==
  [returned |-> TRUE, Rows |-> rows, Columns |-> cols, ErrorCount |-> errs,
   HasResults |-> has]

\* return ExecutionResult{...}
Return ==
  /\ pc = "return"
  /\ ~panicked
  /\ ret' = ExecutionResult(allRows, columns, errorCount, hasResults)
  /\ pc' = "returned"
  /\ UNCHANGED runVars
  /\ UNCHANGED <<workload, next, wg, semaphore, resultsChan, errChan, closed,
                 taskVars, allRows, columns, hasResults, errorCount,
                 collected, panicked>>

Task(i) ==
  \/ Connect(i)
  \/ SendConnectErr(i)
  \/ ExecuteRawQuery(i)
  \/ SendQueryErr(i)
  \/ SendResult(i)
  \/ DeferClose(i)
  \/ DeferRelease(i)
  \/ DeferDone(i)

QueryTargets ==
  \/ RangeTargets
  \/ Acquire
  \/ Wait
  \/ CollectResult
  \/ CollectErr
  \/ Return

\* goroutine identities: the i-th target's goroutine exists when i <= N
TaskIds == 1..MaxTargets

Next ==
  \/ QueryTargets
  \/ \E i \in TaskIds : Task(i)

Spec == Init /\ [][Next]_vars

\* ------------------------------------------------------------------ main
\* What a readable workload.json parses to; an absent field is Go's zero
\* value, so 0 also stands for a missing "workers" and "" for a missing query.
WorkloadFile ==
  [Workers : -1..MaxWorkers, Targets : {Targets(n) : n \in 0..MaxTargets},
   Query : {"", "SELECT"}, OutputDir : {"out"}, OutputFile : {"res"}]

\* the value of the workload variable before LoadWorkloadConfig has returned
NilWorkload ==
  [Workers |-> 0, Targets |-> <<>>, Query |-> "", OutputDir |-> "",
   OutputFile |-> "", nil |-> TRUE]

DefaultWorkloadRunnable ==
  [Workers |-> 1, Targets |-> Targets(1), Query |-> "SELECT",
   OutputDir |-> "./output", OutputFile |-> "query_results"]

DefaultWorkloadZeroWorkers ==
  [Workers |-> 0, Targets |-> <<>>, Query |-> "", OutputDir |-> "./output",
   OutputFile |-> "query_results"]

\* the literal main substitutes when loading fails
DefaultWorkload ==
  [Workers |-> 1, Targets |-> <<>>, Query |-> "", OutputDir |-> "./output",
   OutputFile |-> "query_results"]

EnsureWorkersNegativeOnly(w) ==
  IF w.Workers < 0 THEN [w EXCEPT !.Workers = 1] ELSE w

\* if workload.Workers <= 0 { workload.Workers = 1 }
EnsureWorkers(w) == IF w.Workers <= 0 THEN [w EXCEPT !.Workers = 1] ELSE w

MainInit ==
  /\ file \in WorkloadFile \cup {LoadError}
  /\ dbName \in {"", "appdb"}
  /\ mpc = "load"
  /\ writes = <<>>
  /\ logs = <<>>
  /\ conns = <<>>
  /\ closeRets = <<>>
  /\ workload = NilWorkload
  /\ pc = "idle"
  /\ next = 1
  /\ wg = 0
  /\ semaphore = 0
  /\ resultsChan = <<>>
  /\ errChan = <<>>
  /\ closed = FALSE
  /\ tpc = <<>>
  /\ db = <<>>
  /\ result = <<>>
  /\ calls = <<>>
  /\ allRows = <<>>
  /\ columns = <<>>
  /\ hasResults = FALSE
  /\ errorCount = 0
  /\ collected = <<>>
  /\ panicked = FALSE
  /\ ret = NoReturn

executorVars ==
  <<pc, next, wg, semaphore, resultsChan, errChan, closed, tpc, db, result,
    calls, allRows, columns, hasResults, errorCount, collected, panicked, ret>>

\* workload, err := models.LoadWorkloadConfig(*workloadFile) and the
\* if err != nil {...} else {...} that follows it
LoadWorkloadConfig ==
  /\ mpc = "load"
  /\ IF file = LoadError
       THEN /\ workload' = DefaultWorkload
            /\ logs' = Append(logs, "Warning: Failed to load workload file")
       ELSE /\ workload' = EnsureWorkers(file)
            /\ logs' = IF file.Workers <= 0
                         THEN Append(logs, "Warning: Invalid number of workers")
                         ELSE logs
  /\ mpc' = "check"
  /\ LET targets == 1..Len(workload'.Targets) IN
       \* no goroutine exists yet for any of the targets just read
       /\ tpc' = [i \in targets |-> "unborn"]
       /\ db' = [i \in targets |-> "nil"]
       /\ result' = [i \in targets |-> NoResult]
       /\ calls' = [i \in targets |-> [connect |-> 0, query |-> 0,
                                        close |-> 0, sendResult |-> 0,
                                        sendErr |-> 0]]
  /\ UNCHANGED <<file, dbName, writes, closeVars, mainVars, wg, semaphore,
                 resultsChan, errChan, closed, aggVars, panicked>>

MissingParameterNoQueryCheck(name, w) ==
  IF name = "" THEN "Database name is required"
  ELSE IF Len(w.Targets) = 0 THEN "At least one target host is required"
  ELSE ""

\* the three log.Fatal tests of "Check required parameters": the message of
\* the first one that fires, "" if none does
MissingParameter(name, w) ==
  IF name = "" THEN "Database name is required"
  ELSE IF w.Query = "" THEN "SQL query is required"
  ELSE IF Len(w.Targets) = 0 THEN "At least one target host is required"
  ELSE ""

\* Check required parameters
CheckRequired ==
  /\ mpc = "check"
  /\ LET msg == MissingParameter(dbName, workload) IN
       IF msg # ""
         THEN /\ logs' = Append(logs, msg)
              /\ mpc' = "fatal"
         ELSE /\ logs' = logs
              /\ mpc' = "call"
  /\ UNCHANGED <<file, dbName, workload, writes, closeVars, executorVars>>

\* result := executor.QueryTargets(workload, ...): the call and the
\* declarations of executor.go:32-35
CallQueryTargets ==
  /\ mpc = "call"
  /\ mpc' = "inCall"
  /\ pc' = "range"
  /\ next' = 1
  /\ wg' = 0
  /\ semaphore' = 0
  /\ resultsChan' = <<>>
  /\ errChan' = <<>>
  /\ closed' = FALSE
  /\ UNCHANGED <<file, dbName, workload, writes, logs, closeVars, taskVars,
                 aggVars, panicked>>

AllFailedNoResultsOnly(res, n) == ~res.HasResults

AllFailedAnyError(res, n) == res.ErrorCount > 0

AllFailedNever(res, n) == ~res.HasResults /\ res.ErrorCount > n

\* if !result.HasResults && result.ErrorCount == len(workload.Targets)
AllFailed(res, n) == ~res.HasResults /\ res.ErrorCount = n

\* Check for complete failure
CheckFailure ==
  /\ mpc = "inCall"
  /\ pc = "returned"
  /\ IF AllFailed(ret, Len(workload.Targets))
       THEN /\ logs' = Append(logs, "All target queries failed")
            /\ mpc' = "fatal"
       ELSE /\ logs' = IF ~ret.HasResults
                            /\ ret.ErrorCount < Len(workload.Targets)
                         THEN Append(logs, "Warning: No data rows retrieved")
                         ELSE logs
            /\ mpc' = "write"
  /\ UNCHANGED <<file, dbName, workload, writes, closeVars, executorVars>>

ShouldWriteAlways(res) == TRUE

ShouldWriteHasResultsOnly(res) == res.HasResults

ShouldWriteRowsOnly(res) == Len(res.Rows) > 0

\* if len(result.Rows) > 0 || result.HasResults
ShouldWrite(res) == Len(res.Rows) > 0 \/ res.HasResults

WriterCallNoHeaders(res, w, ok) ==
  [data |-> res.Rows, headers |-> <<>>,
   options |-> [Directory |-> w.OutputDir, Filename |-> w.OutputFile,
                AppendDate |-> TRUE],
   ok |-> ok]

\* csv.WriteToCSV(result.Rows, result.Columns, csvOptions) and whether it
\* returned without error
WriterCall(res, w, ok) ==
  [data |-> res.Rows, headers |-> res.Columns,
   options |-> [Directory |-> w.OutputDir, Filename |-> w.OutputFile,
                AppendDate |-> TRUE],
   ok |-> ok]

WriteResultsErrorNotFatal ==
  /\ mpc = "write"
  /\ IF ShouldWrite(ret)
       THEN \E ok \in BOOLEAN :
              /\ writes' = Append(writes, WriterCall(ret, workload, ok))
              /\ logs' = Append(logs, IF ok
                                        THEN "Aggregated data successfully written"
                                        ELSE "Failed to write aggregated data")
              /\ mpc' = "done"
       ELSE /\ writes' = writes
            /\ logs' = Append(logs, "No data rows to write to CSV.")
            /\ mpc' = "done"
  /\ UNCHANGED <<file, dbName, workload, closeVars, executorVars>>

\* Write aggregated results to CSV
WriteResults ==
  /\ mpc = "write"
  /\ IF ShouldWrite(ret)
       THEN \E ok \in BOOLEAN :
              /\ writes' = Append(writes, WriterCall(ret, workload, ok))
              /\ IF ok
                   THEN /\ logs' = Append(logs, "Aggregated data successfully written")
                        /\ mpc' = "done"
                   ELSE /\ logs' = Append(logs, "Failed to write aggregated data")
                        /\ mpc' = "fatal"
       ELSE /\ writes' = writes
            /\ logs' = Append(logs, "No data rows to write to CSV.")
            /\ mpc' = "done"
  /\ UNCHANGED <<file, dbName, workload, closeVars, executorVars>>

Main ==
  \/ LoadWorkloadConfig
  \/ CheckRequired
  \/ CallQueryTargets
  \/ CheckFailure
  \/ WriteResults

MainNext ==
  \/ Main
  \/ Next

\* the program: main, with QueryTargets running inside it
MainSpec == MainInit /\ [][MainNext]_vars

\* the same under the scheduler's guarantee that a goroutine that can run
\* eventually does
FairMainSpec == MainSpec /\ WF_vars(MainNext)

\* ------------------------------------------------ the legacy entry point
\* The main that inlines dispatch, aggregation and output, as a function of
\* what it reads: the workload file, DB_NAME, the messages its goroutines
\* sent (Successes in the order they come out of resultsChan, the number of
\* errors in errChan) and whether the writer succeeds.

\* workload, err := models.LoadWorkloadConfig(...) and the if/else after it
LegacyLoad(f) ==
  IF f = LoadError
    THEN [Workers |-> 1, Targets |-> <<>>, Query |-> "",
          OutputDir |-> "./output", OutputFile |-> "query_results"]
    ELSE IF f.Workers <= 0 THEN [f EXCEPT !.Workers = 1] ELSE f

\* Check required parameters: TRUE if one of the three log.Fatal fires
LegacyMissing(name, w) ==
  name = "" \/ w.Query = "" \/ Len(w.Targets) = 0

\* for result := range resultsChan {...}, from the locals' initial values
RECURSIVE LegacyCollect(_, _)
LegacyCollect(rs, acc) ==
  IF rs = <<>> THEN acc
  ELSE LET r == Head(rs)
           sets == ~acc.hasResults /\ Len(r.Columns) > 0
       IN LegacyCollect(Tail(rs),
            [columns |-> IF sets THEN r.Columns ELSE acc.columns,
             hasResults |-> IF sets THEN TRUE ELSE acc.hasResults,
             allRows |-> IF Len(r.Rows) > 0 THEN acc.allRows \o r.Rows
                                            ELSE acc.allRows])

LegacyLocals == [columns |-> <<>>, hasResults |-> FALSE, allRows |-> <<>>]

\* the whole run: the aggregate it computes and how it ends
LegacyMain(f, name, rs, errs, ok) ==
  LET w == LegacyLoad(f)
      agg == LegacyCollect(rs, LegacyLocals)
      computed == [Columns |-> agg.columns, Rows |-> agg.allRows,
                   ErrorCount |-> errs, HasResults |-> agg.hasResults]
      call == [data |-> agg.allRows, headers |-> agg.columns,
               options |-> [Directory |-> w.OutputDir,
                            Filename |-> w.OutputFile, AppendDate |-> TRUE],
               ok |-> ok]
  IN IF LegacyMissing(name, w)
       THEN [dispatched |-> FALSE, end |-> "fatal", writes |-> <<>>]
     ELSE IF ~agg.hasResults /\ errs = Len(w.Targets)
       THEN [dispatched |-> TRUE, end |-> "fatal", writes |-> <<>>,
             aggregate |-> computed]
     ELSE IF Len(agg.allRows) > 0 \/ agg.hasResults
       THEN [dispatched |-> TRUE, end |-> IF ok THEN "written" ELSE "fatal",
             writes |-> <<call>>, aggregate |-> computed]
     ELSE [dispatched |-> TRUE, end |-> "completed", writes |-> <<>>,
           aggregate |-> computed]

\* ------------------------------------------- database.Close called directly
ConnIds == 1..MaxTargets

CloseInit ==
  /\ conns = [h \in ConnIds |-> "nil"]
  /\ closeRets = [h \in ConnIds |-> <<>>]
  /\ file = LoadError
  /\ dbName = "appdb"
  /\ mpc = "load"
  /\ writes = <<>>
  /\ logs = <<>>
  /\ workload = NilWorkload
  /\ pc = "idle"
  /\ next = 1
  /\ wg = 0
  /\ semaphore = 0
  /\ resultsChan = <<>>
  /\ errChan = <<>>
  /\ closed = FALSE
  /\ tpc = <<>>
  /\ db = <<>>
  /\ result = <<>>
  /\ calls = <<>>
  /\ allRows = <<>>
  /\ columns = <<>>
  /\ hasResults = FALSE
  /\ errorCount = 0
  /\ collected = <<>>
  /\ panicked = FALSE
  /\ ret = NoReturn

\* db, err := database.Connect(config) returning a handle (err == nil)
ConnectHandle(h) ==
  /\ conns[h] = "nil"
  /\ conns' = [conns EXCEPT ![h] = "open"]
  /\ UNCHANGED <<closeRets, workload, file, dbName, mpc, writes, logs,
                 executorVars>>

\* err := database.Close(db)
CloseHandle(h) ==
  /\ Len(closeRets[h]) < MaxCloses
  /\ \E e \in DriverErrors :
       closeRets' = [closeRets EXCEPT ![h] =
                       Append(@, [db |-> conns[h], err |-> CloseErr(conns[h], e)])]
  /\ conns' = [conns EXCEPT ![h] = Close(@)]
  /\ UNCHANGED <<workload, file, dbName, mpc, writes, logs, executorVars>>

CloseNext ==
  \/ \E h \in ConnIds : ConnectHandle(h)
  \/ \E h \in ConnIds : CloseHandle(h)

CloseSpec == CloseInit /\ [][CloseNext]_vars

TypeOK ==
  /\ workload \in Workload
  /\ pc \in {"range", "acquire", "wait", "collect", "collectErr", "return",
             "returned"}
  /\ wg \in 0..N
  /\ semaphore \in 0..SemaphoreCap
  /\ errorCount \in 0..N
  /\ hasResults \in BOOLEAN

\* ------------------------------------------------ what each goroutine did
\* Connect returned an error: it was called and left the handle nil
ConnectFailed(i) == calls[i].connect > 0 /\ db[i] = "nil"

\* ExecuteRawQuery returned an error: it was called and left result nil
QueryFailed(i) ==
  calls[i].query > 0 /\ result[i] = NoResult /\ tpc[i] # "query"

Succeeded(i) == calls[i].query > 0 /\ result[i] # NoResult

FailedTasks == {i \in Tasks : ConnectFailed(i) \/ QueryFailed(i)}

\* goroutines that hold a semaphore slot: spawned, slot not yet given back
HoldsSlot(i) ==
  tpc[i] \in {"connect", "errConnect", "query", "errQuery", "sendResult",
              "deferClose", "deferRelease"}

SlotHolders == {i \in Tasks : HoldsSlot(i)}

OpenConnections == {i \in Tasks : db[i] = "open"}

Returned == pc = "returned"

RECURSIVE Flatten(_)
Flatten(rs) ==
  IF rs = <<>> THEN <<>> ELSE Head(rs).Rows \o Flatten(Tail(rs))

RECURSIVE SumRows(_)
SumRows(rs) ==
  IF rs = <<>> THEN 0 ELSE Len(Head(rs).Rows) + SumRows(Tail(rs))

\* columns of the first element of rs that has any, <<>> if none has
RECURSIVE FirstColumns(_)
FirstColumns(rs) ==
  IF rs = <<>> THEN <<>>
  ELSE IF Len(Head(rs).Columns) > 0 THEN Head(rs).Columns
  ELSE FirstColumns(Tail(rs))

\* ---------------------------------------------------------------- claims
\* C1 (completeness): once QueryTargets has returned, the Successes read
\* from the result channel plus ErrorCount number exactly len(Targets), and
\* every target sent exactly one outcome (none dropped, none duplicated).
C1_Completeness ==
  Returned =>
    /\ Len(collected) + ret.ErrorCount = Len(workload.Targets)
    /\ \A i \in Tasks : calls[i].sendResult + calls[i].sendErr = 1
    /\ resultsChan = <<>> /\ errChan = <<>>

C1_Witness ==
  /\ Returned
  /\ Len(workload.Targets) = 2
  /\ workload.Workers = 1
  /\ Len(collected) = 1
  /\ ret.ErrorCount = 1

\* C2 (bounded concurrency): in every reachable state at most Workers
\* goroutines hold a semaphore slot, hence at most Workers connections are
\* open, and the semaphore counts exactly the slot holders.
C2_BoundedConcurrency ==
  /\ Cardinality(SlotHolders) <= workload.Workers
  /\ Cardinality(OpenConnections) <= workload.Workers
  /\ semaphore = Cardinality(SlotHolders)

C2_Witness ==
  /\ workload.Workers = 1
  /\ pc = "acquire"
  /\ next = 2
  /\ Cardinality(OpenConnections) = 1

\* C3 (failure isolation): a failed target never blocks or aborts another
\* one. No panic ever happens; a goroutine that has work left can always
\* take its next step; a pending admission is blocked only by goroutines that
\* still hold a slot; and at return every target has run its own connect and
\* yielded its own outcome, the failures being exactly the counted ones.
C3_FailureIsolation ==
  /\ ~panicked
  /\ \A i \in Tasks : tpc[i] \notin {"unborn", "exited"} => ENABLED Task(i)
  /\ (pc = "acquire" /\ workload.Workers > 0 /\ SlotHolders = {})
       => ENABLED Acquire
  /\ Returned =>
       /\ \A i \in Tasks :
            /\ calls[i].connect = 1
            /\ calls[i].sendResult + calls[i].sendErr = 1
            /\ Succeeded(i) <=> calls[i].sendResult = 1
       /\ ret.ErrorCount = Cardinality(FailedTasks)

C3_Witness ==
  /\ Returned
  /\ workload.Workers = 1
  /\ Len(workload.Targets) = 2
  /\ ConnectFailed(1)
  /\ Succeeded(2)
  /\ Len(collected) = 1

\* C4 (connect-failure isolation): a target whose connect failed never has
\* its query invoked nor a close performed, sends no Success, and records
\* exactly one Failure (at most one while it is still about to send it).
C4_ConnectFailure ==
  \A i \in Tasks :
    ConnectFailed(i) =>
      /\ calls[i].query = 0
      /\ calls[i].close = 0
      /\ calls[i].sendResult = 0
      /\ calls[i].sendErr = (IF tpc[i] = "errConnect" THEN 0 ELSE 1)

C4_Witness ==
  /\ Returned
  /\ \E i \in Tasks : ConnectFailed(i) /\ calls[i].sendErr = 1
  /\ ret.ErrorCount = 2

\* C5 (barrier): while any target goroutine has not finished, the caller is
\* still dispatching or waiting, the channels are not closed, nothing has
\* been read from them and the aggregation locals are untouched.
C5_Barrier ==
  (\E i \in Tasks : tpc[i] # "exited") =>
    /\ pc \in {"range", "acquire", "wait"}
    /\ ~closed
    /\ collected = <<>> /\ allRows = <<>> /\ columns = <<>>
    /\ ~hasResults /\ errorCount = 0
    /\ ret = NoReturn

C5_Witness ==
  /\ pc = "collectErr"
  /\ Len(workload.Targets) = 2
  /\ errorCount = 1
  /\ Len(collected) = 1
  /\ \A i \in Tasks : tpc[i] = "exited"

\* C6 (guaranteed release): a connection is closed at most once; a goroutine
\* that opened one has closed it exactly once by the time it gives its slot
\* back, after a failed query as after a successful one; at return no opened
\* connection is left open.
C6_GuaranteedRelease ==
  /\ \A i \in Tasks :
       /\ calls[i].close <= 1
       /\ db[i] = "closed" <=> (calls[i].close = 1 /\ ~ConnectFailed(i))
       /\ (db[i] # "nil" /\ tpc[i] \in {"deferRelease", "deferDone", "exited"})
            => (db[i] = "closed" /\ calls[i].close = 1)
  /\ Returned => OpenConnections = {}

C6_Witness ==
  /\ Returned
  /\ \E i \in Tasks : QueryFailed(i) /\ db[i] = "closed"
  /\ \E i \in Tasks : Succeeded(i) /\ db[i] = "closed"

\* C7 as stated: Columns equal the columns of the Success collected first.
C7_ColumnsOfFirstSuccess ==
  (Returned /\ collected # <<>>) => ret.Columns = collected[1].Columns

\* C7 (header provenance, amended): Columns equal the column sequence of
\* the first Success, in collection order, whose column sequence is not
\* empty (no columns if there is none), and are never reassigned once set.
C7_HeaderProvenance ==
  /\ [](columns = FirstColumns(collected))
  /\ [](Returned => ret.Columns = FirstColumns(collected))
  /\ [][hasResults => (columns' = columns /\ hasResults')]_vars

C7_Witness ==
  /\ Returned
  /\ Len(collected) = 2
  /\ collected[1].Columns = <<>>
  /\ collected[2].Columns = <<"id">>
  /\ ret.Columns = <<"id">>

\* C8 (HasResults): the returned HasResults is true exactly when some
\* collected Success has a non-empty column sequence, and then not every
\* target failed.
C8_HasResults ==
  Returned =>
    /\ ret.HasResults <=>
         \E k \in 1..Len(collected) : Len(collected[k].Columns) > 0
    /\ ret.HasResults => ret.ErrorCount < Len(workload.Targets)

C8_Witness ==
  /\ Returned
  /\ ~ret.HasResults
  /\ Len(collected) = 2
  /\ ret.Rows # <<>>

\* C9 (aggregation order): the returned Rows are the concatenation, in
\* collection order, of the rows of each Success, so each Success's rows are
\* contiguous and in their own order, and the row count is the sum.
C9_AggregationOrder ==
  /\ allRows = Flatten(collected)
  /\ Returned =>
       /\ ret.Rows = Flatten(collected)
       /\ Len(ret.Rows) = SumRows(collected)

C9_Witness ==
  /\ Returned
  /\ Len(collected) = 2
  /\ Len(collected[1].Rows) = 2
  /\ Len(collected[2].Rows) = 1
  /\ collected[1].Columns # collected[2].Columns
  /\ Len(ret.Rows) = 3

\* C10 (error count): the returned ErrorCount is the number of targets
\* whose connect or query step failed.
C10_ErrorCount ==
  Returned => ret.ErrorCount = Cardinality(FailedTasks)

C10_Witness ==
  /\ Returned
  /\ \E i \in Tasks : ConnectFailed(i)
  /\ \E i \in Tasks : QueryFailed(i)
  /\ ret.ErrorCount = 2

\* ------------------------------------------------ what main has done
Logged(msg) == \E k \in 1..Len(logs) : logs[k] = msg

\* a required parameter is missing
ConfigMissing ==
  dbName = "" \/ workload.Query = "" \/ Len(workload.Targets) = 0

\* aggregation is complete and every target failed
AllTargetsFailed ==
  ret.returned /\ ret.ErrorCount = Len(workload.Targets)

\* aggregation is complete and at least one target did not fail
NotAllFailed == ret.returned /\ ret.ErrorCount < Len(workload.Targets)

\* csv.WriteToCSV was called and returned an error
WriteFailed == writes # <<>> /\ ~writes[Len(writes)].ok

\* the process has ended: log.Fatal (exit status 1) or main returned
Ended == mpc \in {"fatal", "done"}

\* C11 (fatal threshold): once aggregation has ended with ErrorCount =
\* len(Targets) > 0, main is at the all-failed test or has ended fatally on
\* it; it never reaches the write step and the writer is never invoked.
C11_FatalThreshold ==
  (AllTargetsFailed /\ Len(workload.Targets) > 0) =>
    /\ mpc \in {"inCall", "fatal"}
    /\ writes = <<>>
    /\ mpc = "fatal" => logs[Len(logs)] = "All target queries failed"

C11_Witness ==
  /\ mpc = "fatal"
  /\ AllTargetsFailed
  /\ Len(workload.Targets) = 2
  /\ writes = <<>>

\* C12 as stated: whenever not every target failed, the writer is invoked.
C12_WriterAlwaysInvoked ==
  (Ended /\ NotAllFailed) => Len(writes) = 1

\* C12 (proceed to write, amended): when not every target failed the run
\* passes the all-failed test and reaches the write step; the writer is
\* invoked exactly when the aggregate has a row or HasResults is true. With
\* HasResults false the warning is logged; with no rows either, the run ends
\* normally without invoking the writer.
C12_ProceedToWrite ==
  NotAllFailed =>
    /\ mpc \in {"inCall", "write", "done", "fatal"}
    /\ mpc = "fatal" => WriteFailed
    /\ Ended => (writes # <<>> <=> (Len(ret.Rows) > 0 \/ ret.HasResults))
    /\ (mpc # "inCall" /\ ~ret.HasResults)
         => Logged("Warning: No data rows retrieved")
    /\ (Ended /\ ~ret.HasResults /\ ret.Rows = <<>>)
         => /\ mpc = "done"
            /\ writes = <<>>
            /\ logs[Len(logs)] = "No data rows to write to CSV."

C12_Witness ==
  /\ mpc = "done"
  /\ NotAllFailed
  /\ ~ret.HasResults
  /\ ret.Rows = <<>>
  /\ writes = <<>>
  /\ Len(collected) = 1
  /\ ret.ErrorCount = 1

C14_SingleWrite ==
  /\ Len(writes) <= 1
  /\ writes # <<>> =>
       /\ pc = "returned"
       /\ ret.returned
       /\ \A i \in Tasks : tpc[i] = "exited"
       /\ writes[1].data = ret.Rows
       /\ writes[1].headers = ret.Columns
       /\ writes[1].data = Flatten(collected)
  /\ mpc \in {"load", "check", "call", "inCall", "write"} => writes = <<>>

C14_Witness ==
  /\ Len(writes) = 1
  /\ writes[1].ok
  /\ Len(writes[1].data) = 3
  /\ writes[1].headers = <<"id">>
  /\ Len(collected) = 2

C17_WorkerCoercion ==
  /\ mpc # "load" =>
       /\ workload.Workers >= 1
       /\ file # LoadError =>
            workload.Workers = (IF file.Workers <= 0 THEN 1 ELSE file.Workers)
  /\ pc # "idle" => SemaphoreCap >= 1

C17_Witness ==
  /\ file # LoadError
  /\ file.Workers = 0
  /\ pc = "returned"
  /\ workload.Workers = 1
  /\ Len(workload.Targets) = 2
  /\ Len(collected) = 2

\* C20 (configuration fallback): when loading fails main logs a warning,
\* substitutes the default workload (one worker, no targets, default output
\* directory and file name) and goes on to the parameter check; it is that
\* check, not the load, that may end the run.
C20_ConfigFallback ==
  (file = LoadError /\ mpc # "load") =>
    /\ workload = DefaultWorkload
    /\ workload.Workers = 1
    /\ workload.Targets = <<>>
    /\ workload.OutputDir = "./output"
    /\ workload.OutputFile = "query_results"
    /\ logs[1] = "Warning: Failed to load workload file"
    /\ mpc = "check" => Len(logs) = 1
    /\ mpc = "fatal" =>
         /\ Len(logs) = 2
         /\ logs[2] \in {"Database name is required", "SQL query is required"}

C20_Witness ==
  /\ file = LoadError
  /\ mpc = "check"
  /\ workload = DefaultWorkload
  /\ dbName # ""

\* C18 (progress): under fair scheduling, with connect and query always
\* returning, a call of QueryTargets eventually returns, a target waiting
\* for a slot is eventually admitted, and every target's goroutine
\* eventually has sent its one outcome and finished.
C18_Progress ==
  /\ (mpc = "inCall") ~> (pc = "returned")
  /\ (pc = "acquire") ~> (pc = "range")
  /\ \A i \in TaskIds :
       (mpc = "inCall" /\ i \in Tasks)
         ~> (/\ i \in Tasks
             /\ tpc[i] = "exited"
             /\ calls[i].sendResult + calls[i].sendErr = 1)

C18_Witness ==
  /\ mpc = "inCall"
  /\ pc = "acquire"
  /\ next = 2
  /\ semaphore = SemaphoreCap
  /\ tpc[1] = "query"
  /\ tpc[2] = "unborn"

IsPrefix(a, b) == Len(a) <= Len(b) /\ SubSeq(b, 1, Len(a)) = a

\* the Successes sent so far, in the order they were sent
SentResults == collected \o resultsChan

\* C19 (no retry): for every target connect is invoked at most once and the
\* query at most once, and only on an opened connection; at return connect
\* was invoked exactly once and the query exactly once iff connect
\* succeeded. A goroutine that finished never runs again, a result once
\* obtained and an outcome once sent are never replaced or changed, and a
\* counted failure is never taken back.
C19_NoRetry ==
  /\ [](\A i \in Tasks :
          /\ calls[i].connect <= 1
          /\ calls[i].query <= 1
          /\ calls[i].query = 1 => db[i] # "nil"
          /\ calls[i].sendResult + calls[i].sendErr <= 1)
  /\ [](Returned =>
          \A i \in Tasks :
            /\ calls[i].connect = 1
            /\ calls[i].query = 1 <=> ~ConnectFailed(i))
  /\ [][/\ \A i \in Tasks :
             /\ tpc[i] = "exited" => tpc'[i] = "exited"
             /\ result[i] # NoResult => result'[i] = result[i]
             /\ calls'[i].connect >= calls[i].connect
        /\ IsPrefix(SentResults, SentResults')
        /\ errorCount' + Len(errChan') >= errorCount + Len(errChan)]_vars

C19_Witness ==
  /\ Returned
  /\ Len(workload.Targets) = 2
  /\ ConnectFailed(2)
  /\ calls[2].connect = 1
  /\ calls[2].query = 0
  /\ Succeeded(1)
  /\ calls[1].query = 1
InCall(i) == tpc[i] \in {"connect", "query"}

\* C23 (hung target): while a target's connect or query has not returned,
\* QueryTargets is still dispatching or waiting at the barrier, which cannot
\* be passed: nothing has been aggregated or returned, main is still inside
\* the call and the writer has not been invoked. Nothing but the return of
\* that call moves the goroutine on, and nobody else sends its outcome or
\* signals its completion: there is no timeout or cancellation step.
C23_HungTarget ==
  /\ [](\A i \in Tasks :
          InCall(i) =>
            /\ pc \in {"range", "acquire", "wait"}
            /\ wg > 0
            /\ ~ENABLED Wait
            /\ ~closed
            /\ collected = <<>> /\ errorCount = 0
            /\ ret = NoReturn
            /\ mpc = "inCall"
            /\ ~ENABLED CheckFailure
            /\ writes = <<>>)
  /\ [][\A i \in Tasks :
          InCall(i) =>
            /\ wg' < wg => \E j \in Tasks \ {i} : tpc'[j] # tpc[j]
            /\ tpc'[i] # tpc[i]
                 => calls'[i].connect + calls'[i].query
                      = calls[i].connect + calls[i].query + 1
            /\ calls'[i].sendResult = 0 /\ calls'[i].sendErr = 0]_vars

C23_Witness ==
  /\ mpc = "inCall"
  /\ pc = "wait"
  /\ Len(workload.Targets) = 2
  /\ tpc[1] = "exited"
  /\ tpc[2] = "query"
  /\ wg = 1
  /\ Len(resultsChan) = 1
\* every Success collected has an empty column sequence
OnlyZeroColumnSuccesses ==
  \A k \in 1..Len(collected) : collected[k].Columns = <<>>

\* C24 (zero-column Success with rows): collecting a Success without columns
\* leaves Columns and HasResults as they were and appends its rows. When all
\* Successes are of this kind and one of them has rows, the result has
\* HasResults false, no columns and non-empty Rows, the run passes the
\* all-failed test and the writer is invoked, once, with those rows and an
\* empty header.
C24_ZeroColumnSuccess ==
  /\ [][(pc = "collect" /\ resultsChan # <<>>
           /\ Head(resultsChan).Columns = <<>>)
        => /\ columns' = columns
           /\ hasResults' = hasResults
           /\ allRows' = allRows \o Head(resultsChan).Rows]_vars
  /\ []((ret.returned /\ OnlyZeroColumnSuccesses /\ SumRows(collected) > 0)
          => /\ ~ret.HasResults
             /\ ret.Columns = <<>>
             /\ Len(ret.Rows) = SumRows(collected)
             /\ mpc \in {"inCall", "write", "done", "fatal"}
             /\ mpc # "inCall" => Logged("Warning: No data rows retrieved")
             /\ Ended =>
                  /\ Len(writes) = 1
                  /\ writes[1].headers = <<>>
                  /\ writes[1].data = ret.Rows
                  /\ mpc = "fatal" <=> ~writes[1].ok)

C24_Witness ==
  /\ mpc = "done"
  /\ Len(collected) = 2
  /\ OnlyZeroColumnSuccesses
  /\ Len(collected[1].Rows) = 0
  /\ Len(collected[2].Rows) = 2
  /\ ~ret.HasResults
  /\ Len(writes) = 1
  /\ writes[1].headers = <<>>
  /\ Len(writes[1].data) = 2
\* for each row of the Successes rs, in order, the number of columns of the
\* Success it belongs to
RECURSIVE Widths(_)
Widths(rs) ==
  IF rs = <<>> THEN <<>>
  ELSE [j \in 1..Len(Head(rs).Rows) |-> Len(Head(rs).Columns)]
         \o Widths(Tail(rs))

\* C25 (no width validation): collecting a Success appends all its rows,
\* unchanged, whatever the columns chosen so far; so every aggregated row
\* keeps the width of its own Success (none is dropped, padded or
\* truncated to the header's width), also in the returned aggregate.
C25_NoWidthValidation ==
  /\ [][(pc = "collect" /\ resultsChan # <<>>)
        => allRows' = allRows \o Head(resultsChan).Rows]_vars
  /\ []([k \in 1..Len(allRows) |-> Len(allRows[k])] = Widths(collected))
  /\ [](Returned =>
          /\ Len(ret.Rows) = SumRows(collected)
          /\ [k \in 1..Len(ret.Rows) |-> Len(ret.Rows[k])] = Widths(collected))

C25_Witness ==
  /\ Returned
  /\ Len(collected) = 2
  /\ collected[1] = NewQueryResult(<<"id", "name">>, 1)
  /\ collected[2] = NewQueryResult(<<"id">>, 2)
  /\ ret.Columns = <<"id", "name">>
  /\ Len(ret.Rows) = 3
  /\ Len(ret.Rows[3]) # Len(ret.Columns)
\* the number of outcomes goroutine i has sent
Sent(i) == calls[i].sendResult + calls[i].sendErr

\* C26 (per-task ordering): a goroutine closes its connection only after it
\* has sent its outcome, gives its slot back only after that and with no
\* connection open, and signals completion only after the slot is given
\* back. Hence the open connections never outnumber the occupied slots, and
\* when QueryTargets returns every slot is free.
C26_PerTaskOrdering ==
  /\ [][\A i \in Tasks :
          /\ calls'[i].close > calls[i].close => Sent(i) = 1
          /\ (HoldsSlot(i) /\ ~HoldsSlot(i)')
               => /\ Sent(i) = 1
                  /\ db[i] # "open"
                  /\ semaphore' = semaphore - 1
                  /\ wg' = wg
          /\ (tpc[i] # "exited" /\ tpc'[i] = "exited")
               => /\ ~HoldsSlot(i)
                  /\ semaphore' = semaphore
                  /\ wg' = wg - 1]_vars
  /\ [](/\ OpenConnections \subseteq SlotHolders
        /\ Cardinality(OpenConnections) <= semaphore
        /\ \A i \in Tasks :
             tpc[i] = "exited" => (Sent(i) = 1 /\ db[i] # "open"))
  /\ [](pc \in {"collect", "collectErr", "return", "returned"}
          => semaphore = 0)

C26_Witness ==
  /\ pc = "wait"
  /\ workload.Workers = 2
  /\ Len(workload.Targets) = 2
  /\ tpc[1] = "deferDone"
  /\ db[1] = "closed"
  /\ tpc[2] = "deferRelease"
  /\ db[2] = "closed"
  /\ semaphore = 1
  /\ wg = 2
\* targets whose goroutine has been started
Admitted == {i \in Tasks : tpc[i] # "unborn"}

\* goroutines that have given their slot back
Released == {i \in Tasks : tpc[i] \in {"deferDone", "exited"}}

Min(a, b) == IF a <= b THEN a ELSE b

\* C27 (admission order): the loop takes the slot and only then starts the
\* goroutine, one target at a time in list order, so the admitted targets
\* are always a prefix of the list; while fewer than W targets have been
\* admitted the next admission never waits; and a target at (0-based) index
\* i >= W is admitted only when at least i - W + 1 earlier goroutines have
\* given their slot back.
C27_AdmissionOrder ==
  /\ [](/\ Admitted = 1..(next - 1)
        /\ next - 1 <= N
        /\ Released \subseteq Admitted
        /\ Cardinality(Admitted) - Cardinality(Released) = semaphore
        /\ \A j \in Admitted :
             j - 1 >= workload.Workers
               => Cardinality(Released) >= (j - 1) - workload.Workers + 1
        /\ (pc = "acquire" /\ next <= Min(workload.Workers, N))
             => ENABLED Acquire)
  /\ [][\A j \in Tasks :
          (tpc[j] = "unborn" /\ tpc'[j] # "unborn")
            => /\ j = next
               /\ next' = j + 1
               /\ pc = "acquire"
               /\ semaphore < workload.Workers
               /\ semaphore' = semaphore + 1
               /\ tpc'[j] = "connect"
               /\ Cardinality(Released) >= j - workload.Workers]_vars

C27_Witness ==
  /\ workload.Workers = 1
  /\ Len(workload.Targets) = 2
  /\ Admitted = {1, 2}
  /\ Released = {1}
  /\ tpc[1] = "deferDone"
  /\ tpc[2] = "connect"
  /\ semaphore = 1
\* goroutines that are about to send their outcome
AboutToSend(i) == tpc[i] \in {"errConnect", "errQuery", "sendResult"}

\* C28 (channel safety): every goroutine sends at most one message, never
\* one on each channel, and has sent exactly one once it is past its send;
\* the two channels together never hold more than len(Targets) messages, so
\* each has room whenever a goroutine is about to send and the send is
\* enabled; and the channels are closed only when every goroutine has
\* exited, so no send hits a closed channel and nothing panics.
C28_ChannelSafety ==
  /\ ~panicked
  /\ Len(resultsChan) + Len(errChan) <= Len(workload.Targets)
  /\ Len(resultsChan) <= ResultsCap
  /\ Len(errChan) <= ErrCap
  /\ \A i \in Tasks :
       /\ Sent(i) <= 1
       /\ tpc[i] \in {"deferClose", "deferRelease", "deferDone", "exited"}
            => Sent(i) = 1
       /\ tpc[i] \in {"unborn", "connect", "query"} => Sent(i) = 0
       /\ AboutToSend(i) =>
            /\ Sent(i) = 0
            /\ ~closed
            /\ Len(resultsChan) < ResultsCap
            /\ Len(errChan) < ErrCap
            /\ ENABLED Task(i)
  /\ closed => \A i \in Tasks : tpc[i] = "exited"
  /\ ~closed =>
       Len(resultsChan) + Len(errChan) = Cardinality({i \in Tasks : Sent(i) = 1})

C28_Witness ==
  /\ workload.Workers = 1
  /\ Len(workload.Targets) = 2
  /\ Len(resultsChan) = 1
  /\ Len(errChan) = 0
  /\ tpc[1] = "exited"
  /\ tpc[2] = "errQuery"
  /\ ~closed
\* the rows a query may return
RowValues == {RowOf(c, j) : c \in ColumnSets, j \in 1..MaxRows}

\* how many times the row v occurs in the sequence rows
Count(v, rows) == Cardinality({k \in 1..Len(rows) : rows[k] = v})

\* how many times the row v occurs in the results of the first n targets
RECURSIVE CountInResults(_, _)
CountInResults(v, n) ==
  IF n = 0 THEN 0
  ELSE (IF Succeeded(n) THEN Count(v, result[n].Rows) ELSE 0)
         + CountInResults(v, n - 1)

\* the targets that succeeded and returned columns
WithColumns == {i \in Tasks : Succeeded(i) /\ Len(result[i].Columns) > 0}

\* C29 (schedule independence): what QueryTargets returns is determined by
\* the targets' outcomes alone, whatever the interleaving, as far as
\* ErrorCount (the number of failed targets), HasResults (some target
\* succeeded with columns) and the multiset of rows (the rows of all
\* succeeded targets) go; Columns are those of one of the targets that
\* succeeded with columns, which one depending on the completion order.
C29_ScheduleIndependence ==
  Returned =>
    /\ ret.ErrorCount = Cardinality({i \in Tasks : ~Succeeded(i)})
    /\ ret.HasResults <=> WithColumns # {}
    /\ \A v \in RowValues : Count(v, ret.Rows) = CountInResults(v, N)
    /\ \A k \in 1..Len(ret.Rows) : ret.Rows[k] \in RowValues
    /\ IF WithColumns = {}
         THEN ret.Columns = <<>>
         ELSE \E i \in WithColumns : ret.Columns = result[i].Columns

C29_Witness ==
  /\ Returned
  /\ Len(workload.Targets) = 2
  /\ result[1] = NewQueryResult(<<"id">>, 1)
  /\ result[2] = NewQueryResult(<<"id", "name">>, 2)
  /\ collected = <<result[2], result[1]>>
  /\ ret.Columns = <<"id", "name">>
  /\ ret.Rows = result[2].Rows \o result[1].Rows
\* C30 (uncoerced worker limit): QueryTargets takes the worker count as it
\* is. Called with Workers = 0 and at least one target, its semaphore has no
\* room and no receiver, so the first acquisition never succeeds: the loop
\* is at its first target, no goroutine is ever started, no connect is made
\* and nothing is returned; once the loop is at the acquisition no step of
\* the program is possible.
C30_UncoercedWorkers ==
  (workload.Workers = 0 /\ Len(workload.Targets) > 0) =>
    /\ pc \in {"range", "acquire"}
    /\ next = 1
    /\ semaphore = 0
    /\ \A i \in Tasks : tpc[i] = "unborn" /\ calls[i].connect = 0
    /\ ret = NoReturn
    /\ ~ENABLED Acquire
    /\ pc = "acquire" => (wg = 1 /\ ~ENABLED Next)

C30_Witness ==
  /\ workload.Workers = 0
  /\ Len(workload.Targets) = 2
  /\ pc = "acquire"
  /\ wg = 1
  /\ tpc[1] = "unborn"
\* C31 (fallback run is always fatal): when loading failed, the workload
\* main goes on with has no query and no targets, so a required parameter is
\* missing whatever the environment; main is at the parameter check or has
\* ended fatally there, and the only step it can take from the check is the
\* fatal one. QueryTargets is never entered, no goroutine exists, no connect
\* is made and the writer is never invoked.
C31_FallbackFatal ==
  /\ []((file = LoadError /\ mpc # "load") =>
          /\ workload.Query = ""
          /\ workload.Targets = <<>>
          /\ MissingParameter(dbName, workload) # ""
          /\ mpc \in {"check", "fatal"}
          /\ mpc = "check" => (ENABLED CheckRequired /\ ~ENABLED CallQueryTargets)
          /\ mpc = "fatal" => ~ENABLED MainNext
          /\ pc = "idle"
          /\ DOMAIN tpc = {}
          /\ DOMAIN calls = {}
          /\ ret = NoReturn
          /\ writes = <<>>)
  /\ [][(file = LoadError /\ mpc = "check")
        => /\ mpc' = "fatal"
           /\ logs'[Len(logs')] \in {"Database name is required",
                                      "SQL query is required"}]_vars

C31_Witness ==
  /\ file = LoadError
  /\ mpc = "fatal"
  /\ dbName = "appdb"
  /\ logs = <<"Warning: Failed to load workload file", "SQL query is required">>
  /\ pc = "idle"
  /\ writes = <<>>
\* how the run of main ended
Terminal ==
  IF mpc = "fatal" THEN "fatal"
  ELSE IF writes # <<>> THEN "written"
  ELSE "completed"

\* the goroutines that sent an error
ErrorsSent == {i \in Tasks : calls[i].sendErr = 1}

\* the writer's answer in this run (it is not asked when nothing is written)
WriterOk == IF writes # <<>> THEN writes[1].ok ELSE TRUE

\* C32 (variant equivalence): the entry point that delegates to QueryTargets
\* ends as the legacy entry point does on the same workload file, DB_NAME,
\* Successes in the same completion order, errors and writer answer: it
\* works on the same workload, dispatches in the same cases, gets the same
\* Columns, Rows, ErrorCount and HasResults, reaches the same terminal state
\* and makes the same call of the writer, or none where the legacy one makes
\* none.
C32_VariantEquivalence ==
  /\ mpc # "load" => workload = LegacyLoad(file)
  /\ Ended =>
       LET legacy == LegacyMain(file, dbName, collected,
                                Cardinality(ErrorsSent), WriterOk)
       IN /\ legacy.dispatched <=> ret.returned
          /\ legacy.dispatched =>
               /\ legacy.aggregate.Columns = ret.Columns
               /\ legacy.aggregate.Rows = ret.Rows
               /\ legacy.aggregate.ErrorCount = ret.ErrorCount
               /\ legacy.aggregate.HasResults = ret.HasResults
          /\ legacy.end = Terminal
          /\ legacy.writes = writes

C32_Witness ==
  /\ mpc = "done"
  /\ Terminal = "written"
  /\ Len(workload.Targets) = 2
  /\ Cardinality(ErrorsSent) = 1
  /\ collected = <<NewQueryResult(<<"id", "name">>, 2)>>
  /\ LegacyMain(file, dbName, collected, 1, TRUE).end = "written"
====
